---- MODULE Spec2Model ----
(***************************************************************************)
(* Verification model of qtvhao/enhance-align-stable-ts:                   *)
(*   - the Segment Validity Filter (src/src/validSegmentsExtractor.ts),    *)
(*   - the Task-Queue Worker       (src/src/rabbitmqWorker.ts),            *)
(*   - the Correlation Registry wired by App (src/unnamed/part_000).       *)
(* Probabilities are integer thousandths (600 stands for 0.600), which is  *)
(* the resolution calculateAverageProbability rounds to.                   *)
(***************************************************************************)
EXTENDS Integers, Sequences, FiniteSets, TLC

VARIABLES
    \* ---- Segment Validity Filter ----
    segments,               \* the argument of extractValidSegments
    probabilityThreshold,   \* this.probabilityThreshold
    validSegments,          \* the returned array
    fpc,                    \* "ready" before the call, "done" after it
    \* ---- Task-Queue Worker ----
    payload,                \* payload[j]: content of task-queue message j
    mstate,                 \* mstate[j]: broker's view: "ready", "unacked", "acked"
    hpc,                    \* hpc[j]: position of the handler run for message j
    deliveries,             \* deliveries[j]: times the broker delivered message j
    cur,                    \* cur[j]: what happened in the latest delivery of j
    responses,              \* messages published to the response topic, in order
    proc,                   \* the worker process: "connecting", "running", ...
    downloadsOk,            \* downloadsOk[j]: downloads of job j that succeeded
    \* ---- App and its Correlation Registry ----
    appService,             \* App.requestResponseService (an instance reference)
    consumerService,        \* the service the KafkaResponseConsumer was given
    pending,                \* pending[ref]: PendingRequest entries of instance ref
    delivered,              \* delivered[id]: responses handed to the callers awaiting id
    lastOp,                 \* the latest registry call and what it returned
    nOps,                   \* number of registry calls so far (the clock of createdAt)
    \* ---- Object Store Gateway ----
    bucket,                 \* names of the blobs in the MinIO bucket
    stLast,                 \* the latest Storage call and how it ended
    stOps,                  \* number of Storage calls so far
    \* ---- calculateAverageProbability called on its own ----
    avgWords,               \* the probabilities of the words argument
    average,                \* the returned number
    apc,                    \* "ready" before the call, "done" after it
    \* ---- two extractors called repeatedly ----
    extractors,             \* extractors[e]: the readonly fields of extractor e
    callInput,              \* the array both extractors are called on
    lastValid,              \* lastValid[e]: the array the previous call of e returned
    returnedA,              \* returnedA[e]: what e returned for callInput, if called
    firstA,                 \* the first result any call returned for callInput
    console,                \* number of lines written to the console
    nCalls,                 \* number of calls so far
    \* ---- Event-Log Bridge, request side ----
    inbound,                \* messages on the inbound request topic, in order
    kpc,                    \* the Kafka consumer: "starting", "running", ...
    startOffset,            \* topic position at which the consumer subscribed
    offset,                 \* position up to which messages are consumed
    handling,               \* index of the message eachMessage is working on, or 0
    taskQueue,              \* jobs the bridge published to the task queue
    bridgeLog,              \* bridgeLog[i]: how the handling of message i ended
    jobsFrom                \* jobsFrom[i]: jobs published for message i

filterVars == <<segments, probabilityThreshold, validSegments, fpc>>

workerVars == <<payload, mstate, hpc, deliveries, cur, responses, proc, downloadsOk>>

registryVars == <<appService, consumerService, pending, delivered, lastOp, nOps>>

storageVars == <<bucket, stLast, stOps>>

averageVars == <<avgWords, average, apc>>

callsVars == <<extractors, callInput, lastValid, returnedA, firstA, console, nCalls>>

bridgeVars == <<inbound, kpc, startOffset, offset, handling, taskQueue, bridgeLog, jobsFrom>>

\* what a component's actions leave alone: the variables of the others
exceptFilterVars == <<workerVars, registryVars, storageVars, averageVars, callsVars, bridgeVars>>
exceptWorkerVars == <<filterVars, registryVars, storageVars, averageVars, callsVars, bridgeVars>>
exceptRegistryVars == <<filterVars, workerVars, storageVars, averageVars, callsVars, bridgeVars>>
exceptStorageVars == <<filterVars, workerVars, registryVars, averageVars, callsVars, bridgeVars>>
exceptAverageVars == <<filterVars, workerVars, registryVars, storageVars, callsVars, bridgeVars>>
exceptCallsVars == <<filterVars, workerVars, registryVars, storageVars, averageVars, bridgeVars>>
exceptBridgeVars == <<filterVars, workerVars, registryVars, storageVars, averageVars, callsVars>>

vars == <<segments, probabilityThreshold, validSegments, fpc,
          payload, mstate, hpc, deliveries, cur, responses, proc, downloadsOk,
          appService, consumerService, pending, delivered, lastOp, nOps,
          bucket, stLast, stOps,
          avgWords, average, apc,
          extractors, callInput, lastValid, returnedA, firstA, console, nCalls,
          inbound, kpc, startOffset, offset, handling, taskQueue, bridgeLog, jobsFrom>>

-----------------------------------------------------------------------------
(* Bounds of the filter's inputs *)

MaxSegs == 2
MaxWords == 2

\* word probabilities, in thousandths
Probs == {0, 600}

\* thresholds the extractor is constructed with, in thousandths
Thresholds == {0, 300}

StartTimes == {0}
EndTimes == {0, 1}

\* rawText as a sequence of characters: " ab " trims to 2, "abc" to 3
RawTexts == { <<" ", "a", "b", " ">>, <<"a", "b", "c">>, <<" ">> }

SeqsUpTo(S, n) == UNION { [1..k -> S] : k \in 0..n }

\* hasWords = FALSE is a segment whose words field is undefined / null
TextSegments ==
    { s \in [startTime : StartTimes, endTime : EndTimes, rawText : RawTexts,
             hasWords : BOOLEAN, words : SeqsUpTo(Probs, MaxWords)] :
         (~s.hasWords) => s.words = <<>> }

-----------------------------------------------------------------------------
(* String.prototype.trim on a character sequence *)

IsWhitespace(c) == c = " "

RECURSIVE TrimStart(_)
TrimStart(s) ==
    IF s = <<>> THEN s
    ELSE IF IsWhitespace(Head(s)) THEN TrimStart(Tail(s)) ELSE s

RECURSIVE TrimEnd(_)
TrimEnd(s) ==
    IF s = <<>> THEN s
    ELSE IF IsWhitespace(s[Len(s)]) THEN TrimEnd(SubSeq(s, 1, Len(s) - 1)) ELSE s

trim(s) == TrimEnd(TrimStart(s))

-----------------------------------------------------------------------------
(* ValidSegmentsExtractor *)

RECURSIVE SumProbability(_)
SumProbability(words) ==
    IF words = <<>> THEN 0 ELSE Head(words) + SumProbability(Tail(words))

\* mutant of calculateAverageProbability: the quotient is cut off, not rounded
calculateAverageProbabilityTruncate(words) ==
    IF Len(words) = 0 THEN 0
    ELSE SumProbability(words) \div Len(words)

\* +(total / n).toFixed(3): the nearest thousandth, the larger one on a tie
calculateAverageProbability(words) ==
    IF Len(words) = 0 THEN 0
    ELSE (2 * SumProbability(words) + Len(words)) \div (2 * Len(words))

isEndSegmentNever(segment) == FALSE

isEndSegment(segment) == segment.endTime = segment.startTime

\* mutants of isSegmentValid --------------------------------------------
isSegmentValidGeq(segment, threshold) ==
    IF isEndSegment(segment) THEN FALSE
    ELSE IF (~segment.hasWords) \/ Len(segment.words) = 0 THEN FALSE
    ELSE LET avgProbability == calculateAverageProbability(segment.words)
             textLength == Len(trim(segment.rawText))
         IN  IF textLength <= 2 /\ avgProbability = 0 THEN TRUE
             ELSE avgProbability >= threshold

isSegmentValidNoWordsCheck(segment, threshold) ==
    IF isEndSegment(segment) THEN FALSE
    ELSE LET avgProbability == calculateAverageProbability(segment.words)
             textLength == Len(trim(segment.rawText))
         IN  IF textLength <= 2 /\ avgProbability = 0 THEN TRUE
             ELSE avgProbability > threshold

isSegmentValidNoSpecialCase(segment, threshold) ==
    IF isEndSegment(segment) THEN FALSE
    ELSE IF (~segment.hasWords) \/ Len(segment.words) = 0 THEN FALSE
    ELSE calculateAverageProbability(segment.words) > threshold
\* ----------------------------------------------------------------------

isSegmentValid(segment, threshold) ==
    IF isEndSegment(segment) THEN FALSE
    ELSE IF (~segment.hasWords) \/ Len(segment.words) = 0 THEN FALSE
    ELSE LET avgProbability == calculateAverageProbability(segment.words)
             textLength == Len(trim(segment.rawText))
         IN  IF textLength <= 2 /\ avgProbability = 0 THEN TRUE
             ELSE avgProbability > threshold

\* mutant of extractValidSegments: `continue` where the code has `break`
RECURSIVE extractValidSegmentsContinue(_, _)
extractValidSegmentsContinue(segs, threshold) ==
    IF segs = <<>> THEN <<>>
    ELSE IF ~isSegmentValid(Head(segs), threshold)
         THEN extractValidSegmentsContinue(Tail(segs), threshold)
         ELSE <<Head(segs)>> \o extractValidSegmentsContinue(Tail(segs), threshold)

\* the for-of loop: break on the first invalid segment, push otherwise
RECURSIVE extractValidSegments(_, _)
extractValidSegments(segs, threshold) ==
    IF segs = <<>> THEN <<>>
    ELSE IF ~isSegmentValid(Head(segs), threshold) THEN <<>>
         ELSE <<Head(segs)>> \o extractValidSegments(Tail(segs), threshold)

-----------------------------------------------------------------------------
(* Task-Queue Worker: messages, object store, validation *)

MaxJobs == 2
MaxDeliveries == 2

Jobs == 1..MaxJobs

\* a field that is absent from the parsed JSON object
Undefined == "<undefined>"

CorrelationIds == {Undefined, "", "c1"}
ClaimChecks == {Undefined, "f1.wav", "gone.wav"}

\* blobs present in the bucket
StoredBlobs == {"f1.wav"}

\* parsed = FALSE: the message content is not JSON, the parser yields null
UnparsablePayload ==
    [parsed |-> FALSE, correlationId |-> Undefined,
     referenceTexts |-> <<>>, fileClaimCheck |-> Undefined]

Payloads ==
    {UnparsablePayload} \cup
    [parsed : {TRUE}, correlationId : CorrelationIds,
     referenceTexts : {<<"a">>}, fileClaimCheck : ClaimChecks]

\* JavaScript truthiness of a string-or-undefined field
Truthy(v) == v # Undefined /\ v # ""

\* mutant of validateMessage: the correlationId test is missing
validateMessageNullOnly(requestData) == requestData.parsed

validateMessage(requestData) ==
    IF ~requestData.parsed THEN FALSE
    ELSE IF ~Truthy(requestData.correlationId) THEN FALSE
    ELSE TRUE

\* path.join(tempDir, fileClaimCheck) throws a TypeError on a non-string
PathJoinThrows(requestData) == requestData.fileClaimCheck = Undefined

\* { ...requestData, status: 'Processed', timestamp }
ResponseData(requestData) ==
    [correlationId |-> requestData.correlationId,
     referenceTexts |-> requestData.referenceTexts,
     fileClaimCheck |-> requestData.fileClaimCheck,
     status |-> "Processed"]

NoEvents ==
    [downloadStarted |-> FALSE, downloadFailed |-> FALSE,
     published |-> FALSE, publishFailed |-> FALSE]

-----------------------------------------------------------------------------
(* App and the Correlation Registry (RequestResponseService) *)

MaxOps == 4

\* instances of RequestResponseService that can exist
ServiceRefs == {"service1", "service2"}

PendingIds == {"c1", "c2"}
ResponseMessages == {"r1", "r2"}

NoOp == [op |-> "none", id |-> "", response |-> "", result |-> "none"]

\* positions of the entries for id in a list of PendingRequest
EntriesOf(entries, id) == { i \in DOMAIN entries : entries[i].correlationId = id }

RECURSIVE RemoveId(_, _)
RemoveId(entries, id) ==
    IF entries = <<>> THEN <<>>
    ELSE IF Head(entries).correlationId = id THEN RemoveId(Tail(entries), id)
         ELSE <<Head(entries)>> \o RemoveId(Tail(entries), id)

\* mutant of register: a Map.set that replaces the entry of a pending id
registerOverwrite(entries, id, now) ==
    [entries |-> Append(RemoveId(entries, id),
                        [correlationId |-> id, createdAt |-> now]),
     result |-> "handle"]

\* register(correlationId) -> handle, DuplicateCorrelation if already pending
register(entries, id, now) ==
    IF EntriesOf(entries, id) # {}
    THEN [entries |-> entries, result |-> "DuplicateCorrelation"]
    ELSE [entries |-> Append(entries, [correlationId |-> id, createdAt |-> now]),
          result |-> "handle"]

\* resolve(correlationId, response) -> bool: whether a match existed
resolve(entries, id) ==
    IF EntriesOf(entries, id) # {}
    THEN [entries |-> RemoveId(entries, id), matched |-> TRUE]
    ELSE [entries |-> entries, matched |-> FALSE]

\* cancel(correlationId)
cancel(entries, id) == RemoveId(entries, id)

\* mutant of initializeKafkaConsumer: the consumer gets an instance of its own
initializeKafkaConsumerOwnService(requestResponseService) ==
    CHOOSE ref \in ServiceRefs : ref # requestResponseService

\* new KafkaResponseConsumer(topic, groupId, this.requestResponseService):
\* the service the response consumer resolves on
initializeKafkaConsumer(requestResponseService) == requestResponseService

-----------------------------------------------------------------------------
(* Object Store Gateway: Storage over the MinIO client *)

MaxStorageOps == 3

BlobNames == {"f1.wav", "f2.wav"}

\* how a call ended: returned (with a value) or threw (with an error code)
Returned(value) == [thrown |-> FALSE, value |-> value, code |-> ""]
Threw(code) == [thrown |-> TRUE, value |-> FALSE, code |-> code]

\* the client's answer to a request that cannot be served (network, access)
ClientFault == "ECONNREFUSED"

\* client.statObject: NotFound for a name that is not in the bucket
statObject(bkt, name, fault) ==
    IF fault THEN Threw(ClientFault)
    ELSE IF name \in bkt THEN Returned(TRUE)
    ELSE Threw("NotFound")

\* client.removeObject: the store answers a delete of an absent name as done
removeObject(bkt, name, fault) ==
    IF fault THEN [bucket |-> bkt, outcome |-> Threw(ClientFault)]
    ELSE [bucket |-> bkt \ {name}, outcome |-> Returned(TRUE)]

\* client.fPutObject
fPutObject(bkt, name, fault) ==
    IF fault THEN [bucket |-> bkt, outcome |-> Threw(ClientFault)]
    ELSE [bucket |-> bkt \cup {name}, outcome |-> Returned(TRUE)]

\* client.fGetObject
fGetObject(bkt, name, fault) ==
    IF fault THEN Threw(ClientFault)
    ELSE IF name \in bkt THEN Returned(TRUE)
    ELSE Threw("NotFound")

\* Storage.uploadFile: catch, log, rethrow
uploadFile(bkt, name, fault) == fPutObject(bkt, name, fault)

\* Storage.downloadFile: catch, log, rethrow
downloadFile(bkt, name, fault) == fGetObject(bkt, name, fault)

\* mutant of deleteFile: looks the blob up first and raises when it is absent
deleteFileCheckFirst(bkt, name, fault) ==
    IF statObject(bkt, name, fault).thrown
    THEN [bucket |-> bkt, outcome |-> statObject(bkt, name, fault)]
    ELSE removeObject(bkt, name, fault)

\* Storage.deleteFile: catch, log, rethrow
deleteFile(bkt, name, fault) == removeObject(bkt, name, fault)

\* mutant of fileExists: every error of statObject is rethrown
fileExistsRethrowAll(bkt, name, fault) == statObject(bkt, name, fault)

\* Storage.fileExists: true, false on code NotFound, rethrow otherwise
fileExists(bkt, name, fault) ==
    LET stat == statObject(bkt, name, fault)
    IN  IF ~stat.thrown THEN Returned(TRUE)
        ELSE IF stat.code = "NotFound" THEN Returned(FALSE)
        ELSE Threw(stat.code)

NoStorageCall ==
    [op |-> "none", name |-> "", fault |-> FALSE, before |-> {},
     outcome |-> Returned(FALSE)]

-----------------------------------------------------------------------------
(* Inputs of calculateAverageProbability called on its own.  With           *)
(* probabilities that are multiples of 0.1 and at most MaxAvgWords + 1     *)
(* words, no mean lies half-way between two thousandths, so the binary     *)
(* representation of the quotient cannot change the digit toFixed chooses. *)

MaxAvgWords == 3

AvgProbs == {0, 100, 200, 300, 1000}

-----------------------------------------------------------------------------
(* Repeated calls of extractValidSegments on two extractors that differ in  *)
(* enableDebugLogging only                                                  *)

MaxCallSegs == 1
MaxCalls == 3

Extractors == {"quiet", "debug"}

\* an input other than callInput, for the calls in between
OtherInput ==
    << [startTime |-> 0, endTime |-> 1, rawText |-> <<"a", "b", "c">>,
        hasWords |-> TRUE, words |-> <<600, 600>>] >>

NotReturned == [set |-> FALSE, value |-> <<>>]

\* mutant of NewValidSegments: the array of the previous call is kept
NewValidSegmentsRetained(previous) == previous

\* line 25: const validSegments: TextSegment[] = [] -- a fresh array per call
NewValidSegments(previous) == <<>>

\* console.log calls made while segs is scanned with debug logging on:
\* one line for a segment rejected before the average is computed, two
\* (details and status) for every other evaluated segment
RECURSIVE logLines(_, _)
logLines(segs, threshold) ==
    IF segs = <<>> THEN 0
    ELSE IF isEndSegment(Head(segs)) THEN 1
    ELSE IF (~Head(segs).hasWords) \/ Len(Head(segs).words) = 0 THEN 1
    ELSE IF isSegmentValid(Head(segs), threshold)
         THEN 2 + logLines(Tail(segs), threshold)
         ELSE 2

-----------------------------------------------------------------------------
(* Event-Log Bridge, request side: startKafkaConsumer with the handler of   *)
(* KafkaToRabbitMQConsumer                                                  *)

MaxInbound == 2

Positions == 1..MaxInbound

RequestMessages ==
    [correlationId : {"c1", "c2"}, referenceTexts : {<<"a">>},
     claimCheck : {"f1.wav"}]

\* mutant of BridgeJob: the job is built without the caller's correlationId
BridgeJobFreshId(request) ==
    [correlationId |-> "", referenceTexts |-> request.referenceTexts,
     claimCheck |-> request.claimCheck]

\* the task-queue job republished for an inbound request: the same fields
BridgeJob(request) ==
    [correlationId |-> request.correlationId,
     referenceTexts |-> request.referenceTexts,
     claimCheck |-> request.claimCheck]

-----------------------------------------------------------------------------
(* States in which a component does not exist (used by the other
   components' specifications) *)

\* no extractor has been constructed
FilterAbsent ==
    /\ segments = <<>>
    /\ probabilityThreshold = 0
    /\ validSegments = <<>>
    /\ fpc = "absent"

WorkerAbsent ==
    /\ payload = [j \in Jobs |-> UnparsablePayload]
    /\ mstate = [j \in Jobs |-> "none"]
    /\ hpc = [j \in Jobs |-> "none"]
    /\ deliveries = [j \in Jobs |-> 0]
    /\ cur = [j \in Jobs |-> NoEvents]
    /\ responses = <<>>
    /\ proc = "absent"
    /\ downloadsOk = [j \in Jobs |-> 0]

RegistryAbsent ==
    /\ appService = "none"
    /\ consumerService = "none"
    /\ pending = [ref \in ServiceRefs |-> <<>>]
    /\ delivered = [id \in PendingIds |-> <<>>]
    /\ lastOp = NoOp
    /\ nOps = 0

StorageAbsent ==
    /\ bucket = {}
    /\ stLast = NoStorageCall
    /\ stOps = 0

AverageAbsent ==
    /\ avgWords = <<>>
    /\ average = 0
    /\ apc = "absent"

CallsAbsent ==
    /\ extractors = [e \in Extractors |->
                        [probabilityThreshold |-> 0, enableDebugLogging |-> FALSE]]
    /\ callInput = <<>>
    /\ lastValid = [e \in Extractors |-> <<>>]
    /\ returnedA = [e \in Extractors |-> NotReturned]
    /\ firstA = NotReturned
    /\ console = 0
    /\ nCalls = 0

BridgeAbsent ==
    /\ inbound = <<>>
    /\ kpc = "absent"
    /\ startOffset = 0
    /\ offset = 0
    /\ handling = 0
    /\ taskQueue = <<>>
    /\ bridgeLog = [i \in Positions |-> "none"]
    /\ jobsFrom = [i \in Positions |-> 0]

ExceptFilterAbsent == WorkerAbsent /\ RegistryAbsent /\ StorageAbsent /\ AverageAbsent /\ CallsAbsent /\ BridgeAbsent
ExceptWorkerAbsent == FilterAbsent /\ RegistryAbsent /\ StorageAbsent /\ AverageAbsent /\ CallsAbsent /\ BridgeAbsent
ExceptRegistryAbsent == FilterAbsent /\ WorkerAbsent /\ StorageAbsent /\ AverageAbsent /\ CallsAbsent /\ BridgeAbsent
ExceptStorageAbsent == FilterAbsent /\ WorkerAbsent /\ RegistryAbsent /\ AverageAbsent /\ CallsAbsent /\ BridgeAbsent
ExceptAverageAbsent == FilterAbsent /\ WorkerAbsent /\ RegistryAbsent /\ StorageAbsent /\ CallsAbsent /\ BridgeAbsent
ExceptCallsAbsent == FilterAbsent /\ WorkerAbsent /\ RegistryAbsent /\ StorageAbsent /\ AverageAbsent /\ BridgeAbsent
ExceptBridgeAbsent == FilterAbsent /\ WorkerAbsent /\ RegistryAbsent /\ StorageAbsent /\ AverageAbsent /\ CallsAbsent

-----------------------------------------------------------------------------
(* The filter as a state machine: construct, then call once *)

FilterStart ==
    /\ segments \in SeqsUpTo(TextSegments, MaxSegs)
    /\ probabilityThreshold \in Thresholds
    /\ validSegments = <<>>
    /\ fpc = "ready"

FilterInit == FilterStart /\ ExceptFilterAbsent

ExtractValidSegments ==
    /\ fpc = "ready"
    /\ validSegments' = extractValidSegments(segments, probabilityThreshold)
    /\ fpc' = "done"
    /\ UNCHANGED <<segments, probabilityThreshold>>
    /\ UNCHANGED exceptFilterVars

FilterNext == ExtractValidSegments

SpecFilter == FilterInit /\ [][FilterNext]_vars

-----------------------------------------------------------------------------
(* The worker as a state machine *)

\* the module was loaded and startWorker() called: it awaits connectAmqp();
\* the task queue holds MaxJobs messages
WorkerInit ==
    /\ payload \in [Jobs -> Payloads]
    /\ mstate = [j \in Jobs |-> "ready"]
    /\ hpc = [j \in Jobs |-> "none"]
    /\ deliveries = [j \in Jobs |-> 0]
    /\ cur = [j \in Jobs |-> NoEvents]
    /\ responses = <<>>
    /\ proc = "connecting"
    /\ downloadsOk = [j \in Jobs |-> 0]
    /\ ExceptWorkerAbsent

\* handler positions between the delivery of a message and the end of its run
InFlight == {"download", "sleep", "publish"}

-----------------------------------------------------------------------------
(* connectAmqp and rabbitMqMessageHandler(channel, validateMessage,         *)
(* processMessage): the channel the worker consumes on and what the         *)
(* consumer callback does around the two functions it is given.            *)
(* processMessage returns a promise; the callback can tell a resolved one  *)
(* from a rejected one and nothing else about the job.                     *)

\* messages the broker leaves unacknowledged on the channel at one time:
\* one job at a time per worker slot
Prefetch == 1

\* mutant of Delivered: the channel has no prefetch limit
DeliveredNoPrefetch(j) ==
    /\ proc = "running"
    /\ mstate[j] = "ready"
    /\ deliveries[j] < MaxDeliveries
    /\ deliveries' = [deliveries EXCEPT ![j] = @ + 1]

\* the broker hands message j to the consumer callback
Delivered(j) ==
    /\ proc = "running"
    /\ mstate[j] = "ready"
    /\ Cardinality({k \in Jobs : mstate[k] = "unacked"}) < Prefetch
    /\ deliveries[j] < MaxDeliveries
    /\ deliveries' = [deliveries EXCEPT ![j] = @ + 1]

\* validation failed: acknowledge and drop
HandlerOnInvalid(j) ==
    /\ mstate' = [mstate EXCEPT ![j] = "acked"]
    /\ hpc' = [hpc EXCEPT ![j] = "done"]

\* processMessage resolved: acknowledge
HandlerOnReturn(j) ==
    /\ mstate' = [mstate EXCEPT ![j] = "acked"]
    /\ hpc' = [hpc EXCEPT ![j] = "done"]

\* processMessage rejected: log, leave the message unacknowledged
HandlerOnThrow(j) ==
    /\ mstate' = [mstate EXCEPT ![j] = "unacked"]
    /\ hpc' = [hpc EXCEPT ![j] = "failed"]

-----------------------------------------------------------------------------
(* Worker actions *)

\* startWorker, line 90: connectAmqp() resolves; lines 91-97: consume
\* registers the callback
ConnectSucceeds ==
    /\ proc = "connecting"
    /\ proc' = "running"
    /\ UNCHANGED <<payload, mstate, hpc, deliveries, cur, responses, downloadsOk>>
    /\ UNCHANGED exceptWorkerVars

\* startWorker, line 90: connectAmqp() rejects outside the try block, the
\* promise of startWorker() (line 104) rejects and nothing handles it
ConnectFails ==
    /\ proc = "connecting"
    /\ proc' = "crashed"
    /\ UNCHANGED <<payload, mstate, hpc, deliveries, cur, responses, downloadsOk>>
    /\ UNCHANGED exceptWorkerVars

\* startWorker, lines 91-100: consume throws, the catch block logs it; the
\* process stays up without a consumer
ConsumeFails ==
    /\ proc = "connecting"
    /\ proc' = "notListening"
    /\ UNCHANGED <<payload, mstate, hpc, deliveries, cur, responses, downloadsOk>>
    /\ UNCHANGED exceptWorkerVars

\* delivery of a message that validateMessage refuses
HandleInvalid(j) ==
    /\ Delivered(j)
    /\ ~validateMessage(payload[j])
    /\ HandlerOnInvalid(j)
    /\ cur' = [cur EXCEPT ![j] = NoEvents]
    /\ UNCHANGED <<payload, responses, proc, downloadsOk>>
    /\ UNCHANGED exceptWorkerVars

\* processAndRespondToKafka, line 53: path.join throws before the try block
ProcessPathThrows(j) ==
    /\ Delivered(j)
    /\ validateMessage(payload[j])
    /\ PathJoinThrows(payload[j])
    /\ HandlerOnThrow(j)
    /\ cur' = [cur EXCEPT ![j] = NoEvents]
    /\ UNCHANGED <<payload, responses, proc, downloadsOk>>
    /\ UNCHANGED exceptWorkerVars

\* processAndRespondToKafka, lines 50-58: up to `await storage.downloadFile`
ProcessStartDownload(j) ==
    /\ Delivered(j)
    /\ validateMessage(payload[j])
    /\ ~PathJoinThrows(payload[j])
    /\ mstate' = [mstate EXCEPT ![j] = "unacked"]
    /\ hpc' = [hpc EXCEPT ![j] = "download"]
    /\ cur' = [cur EXCEPT ![j] = [NoEvents EXCEPT !.downloadStarted = TRUE]]
    /\ UNCHANGED <<payload, responses, proc, downloadsOk>>
    /\ UNCHANGED exceptWorkerVars

\* storage.downloadFile resolves; statSync; up to the `await` of the timer
DownloadSucceeds(j) ==
    /\ proc = "running"
    /\ hpc[j] = "download"
    /\ \E fault \in BOOLEAN :
           ~downloadFile(StoredBlobs, payload[j].fileClaimCheck, fault).thrown
    /\ hpc' = [hpc EXCEPT ![j] = "sleep"]
    /\ downloadsOk' = [downloadsOk EXCEPT ![j] = @ + 1]
    /\ UNCHANGED <<payload, mstate, deliveries, cur, responses, proc>>
    /\ UNCHANGED exceptWorkerVars

\* mutant of DownloadFails: the failed download is logged and the function
\* goes on to build and send the response
DownloadFailsGoesOn(j) ==
    /\ proc = "running"
    /\ hpc[j] = "download"
    /\ cur' = [cur EXCEPT ![j].downloadFailed = TRUE]
    /\ hpc' = [hpc EXCEPT ![j] = "sleep"]
    /\ UNCHANGED <<payload, mstate, deliveries, responses, proc, downloadsOk>>
    /\ UNCHANGED exceptWorkerVars

\* storage.downloadFile rethrows (NotFound for an absent blob, or a transfer
\* fault); the catch block of lines 81-83 logs it and the function returns
DownloadFails(j) ==
    /\ proc = "running"
    /\ hpc[j] = "download"
    /\ \E fault \in BOOLEAN :
           downloadFile(StoredBlobs, payload[j].fileClaimCheck, fault).thrown
    /\ cur' = [cur EXCEPT ![j].downloadFailed = TRUE]
    /\ HandlerOnReturn(j)
    /\ UNCHANGED <<payload, deliveries, responses, proc, downloadsOk>>
    /\ UNCHANGED exceptWorkerVars

\* the timer fires; responseData is built and sendMessageToQueue is called
ProcessStartPublish(j) ==
    /\ proc = "running"
    /\ hpc[j] = "sleep"
    /\ hpc' = [hpc EXCEPT ![j] = "publish"]
    /\ UNCHANGED <<payload, mstate, deliveries, cur, responses, proc, downloadsOk>>
    /\ UNCHANGED exceptWorkerVars

\* sendMessageToQueue resolves; the function returns
PublishSucceeds(j) ==
    /\ proc = "running"
    /\ hpc[j] = "publish"
    /\ responses' = Append(responses, ResponseData(payload[j]))
    /\ cur' = [cur EXCEPT ![j].published = TRUE]
    /\ HandlerOnReturn(j)
    /\ UNCHANGED <<payload, deliveries, proc, downloadsOk>>
    /\ UNCHANGED exceptWorkerVars

\* sendMessageToQueue rejects; the catch block logs it and the function returns
PublishFails(j) ==
    /\ proc = "running"
    /\ hpc[j] = "publish"
    /\ cur' = [cur EXCEPT ![j].publishFailed = TRUE]
    /\ HandlerOnReturn(j)
    /\ UNCHANGED <<payload, deliveries, responses, proc, downloadsOk>>
    /\ UNCHANGED exceptWorkerVars

\* the responses of the jobs in sent, in job order
RECURSIVE ResponsesOf(_, _)
ResponsesOf(j, sent) ==
    IF j > MaxJobs THEN <<>>
    ELSE (IF j \in sent THEN <<ResponseData(payload[j])>> ELSE <<>>)
             \o ResponsesOf(j + 1, sent)

\* SIGTERM or SIGINT reaches the worker process.  rabbitmqWorker.ts installs
\* no handler for either, so the process ends at once: every handler run in
\* progress is abandoned where it stands.  A response whose send was under
\* way may or may not have reached the topic.
Signal ==
    /\ proc \in {"connecting", "running", "notListening"}
    /\ proc' = "terminated"
    /\ hpc' = [j \in Jobs |-> IF hpc[j] \in InFlight THEN "abandoned" ELSE hpc[j]]
    /\ \E sent \in SUBSET {j \in Jobs : hpc[j] = "publish"} :
           /\ responses' = responses \o ResponsesOf(1, sent)
           /\ cur' = [j \in Jobs |->
                         IF j \in sent THEN [cur[j] EXCEPT !.published = TRUE]
                         ELSE cur[j]]
    /\ UNCHANGED <<payload, mstate, deliveries, downloadsOk>>
    /\ UNCHANGED exceptWorkerVars

\* the broker requeues a message whose handler ended without acknowledging it
Redeliver(j) ==
    /\ mstate[j] = "unacked"
    /\ hpc[j] \in {"failed", "abandoned"}
    /\ mstate' = [mstate EXCEPT ![j] = "ready"]
    /\ hpc' = [hpc EXCEPT ![j] = "none"]
    /\ UNCHANGED <<payload, deliveries, cur, responses, proc, downloadsOk>>
    /\ UNCHANGED exceptWorkerVars

\* the worker process is started again after it ended
Restart ==
    /\ proc \in {"terminated", "crashed"}
    /\ \A j \in Jobs : hpc[j] # "abandoned"
    /\ proc' = "connecting"
    /\ UNCHANGED <<payload, mstate, hpc, deliveries, cur, responses, downloadsOk>>
    /\ UNCHANGED exceptWorkerVars

WorkerNext ==
    \/ ConnectSucceeds
    \/ ConnectFails
    \/ ConsumeFails
    \/ Signal
    \/ Restart
    \/ \E j \in Jobs : HandleInvalid(j)
    \/ \E j \in Jobs : ProcessPathThrows(j)
    \/ \E j \in Jobs : ProcessStartDownload(j)
    \/ \E j \in Jobs : DownloadSucceeds(j)
    \/ \E j \in Jobs : DownloadFails(j)
    \/ \E j \in Jobs : ProcessStartPublish(j)
    \/ \E j \in Jobs : PublishSucceeds(j)
    \/ \E j \in Jobs : PublishFails(j)
    \/ \E j \in Jobs : Redeliver(j)

SpecWorker == WorkerInit /\ [][WorkerNext]_vars

-----------------------------------------------------------------------------
(* The App and its registry as a state machine *)

\* App.constructor
AppInit ==
    /\ appService = "service1"
    /\ consumerService = initializeKafkaConsumer(appService)
    /\ pending = [ref \in ServiceRefs |-> <<>>]
    /\ delivered = [id \in PendingIds |-> <<>>]
    /\ lastOp = NoOp
    /\ nOps = 0
    /\ ExceptRegistryAbsent

\* request-issuing path: app.requestResponseService.register(id)
Register(id) ==
    /\ nOps < MaxOps
    /\ LET out == register(pending[appService], id, nOps + 1)
       IN  /\ pending' = [pending EXCEPT ![appService] = out.entries]
           /\ lastOp' = [op |-> "register", id |-> id, response |-> "",
                         result |-> out.result]
    /\ nOps' = nOps + 1
    /\ UNCHANGED <<appService, consumerService, delivered>>
    /\ UNCHANGED exceptRegistryVars

\* response-consuming path: the KafkaResponseConsumer resolves on its service;
\* a match hands the response to the awaiting caller, no match is dropped
Resolve(id, response) ==
    /\ nOps < MaxOps
    /\ LET out == resolve(pending[consumerService], id)
       IN  /\ pending' = [pending EXCEPT ![consumerService] = out.entries]
           /\ delivered' = IF out.matched
                           THEN [delivered EXCEPT ![id] = Append(@, response)]
                           ELSE delivered
           /\ lastOp' = [op |-> "resolve", id |-> id, response |-> response,
                         result |-> IF out.matched THEN "match" ELSE "no match"]
    /\ nOps' = nOps + 1
    /\ UNCHANGED <<appService, consumerService>>
    /\ UNCHANGED exceptRegistryVars

\* request-issuing path: app.requestResponseService.cancel(id)
Cancel(id) ==
    /\ nOps < MaxOps
    /\ pending' = [pending EXCEPT ![appService] = cancel(@, id)]
    /\ lastOp' = [op |-> "cancel", id |-> id, response |-> "", result |-> "none"]
    /\ nOps' = nOps + 1
    /\ UNCHANGED <<appService, consumerService, delivered>>
    /\ UNCHANGED exceptRegistryVars

RegistryNext ==
    \/ \E id \in PendingIds : Register(id)
    \/ \E id \in PendingIds, response \in ResponseMessages : Resolve(id, response)
    \/ \E id \in PendingIds : Cancel(id)

SpecRegistry == AppInit /\ [][RegistryNext]_vars

-----------------------------------------------------------------------------
(* The object store as a state machine *)

StorageInit ==
    /\ bucket \in SUBSET BlobNames
    /\ stLast = NoStorageCall
    /\ stOps = 0
    /\ ExceptStorageAbsent

StorageCall(op, name, fault, outcome) ==
    /\ stLast' = [op |-> op, name |-> name, fault |-> fault, before |-> bucket,
                  outcome |-> outcome]
    /\ stOps' = stOps + 1
    /\ UNCHANGED exceptStorageVars

UploadFile(name, fault) ==
    /\ stOps < MaxStorageOps
    /\ bucket' = uploadFile(bucket, name, fault).bucket
    /\ StorageCall("uploadFile", name, fault, uploadFile(bucket, name, fault).outcome)

DownloadFile(name, fault) ==
    /\ stOps < MaxStorageOps
    /\ bucket' = bucket
    /\ StorageCall("downloadFile", name, fault, downloadFile(bucket, name, fault))

DeleteFile(name, fault) ==
    /\ stOps < MaxStorageOps
    /\ bucket' = deleteFile(bucket, name, fault).bucket
    /\ StorageCall("deleteFile", name, fault, deleteFile(bucket, name, fault).outcome)

FileExists(name, fault) ==
    /\ stOps < MaxStorageOps
    /\ bucket' = bucket
    /\ StorageCall("fileExists", name, fault, fileExists(bucket, name, fault))

StorageNext ==
    \/ \E name \in BlobNames, fault \in BOOLEAN : UploadFile(name, fault)
    \/ \E name \in BlobNames, fault \in BOOLEAN : DownloadFile(name, fault)
    \/ \E name \in BlobNames, fault \in BOOLEAN : DeleteFile(name, fault)
    \/ \E name \in BlobNames, fault \in BOOLEAN : FileExists(name, fault)

SpecStorage == StorageInit /\ [][StorageNext]_vars

-----------------------------------------------------------------------------
(* calculateAverageProbability as a state machine: one call *)

AverageInit ==
    /\ avgWords \in SeqsUpTo(AvgProbs, MaxAvgWords)
    /\ average = 0
    /\ apc = "ready"
    /\ ExceptAverageAbsent

CalculateAverageProbability ==
    /\ apc = "ready"
    /\ average' = calculateAverageProbability(avgWords)
    /\ apc' = "done"
    /\ UNCHANGED avgWords
    /\ UNCHANGED exceptAverageVars

AverageNext == CalculateAverageProbability

SpecAverage == AverageInit /\ [][AverageNext]_vars

-----------------------------------------------------------------------------
(* The two extractors as a state machine *)

\* new ValidSegmentsExtractor(t) and new ValidSegmentsExtractor(t, true)
CallsInit ==
    /\ \E t \in Thresholds :
           extractors = [e \in Extractors |->
                            [probabilityThreshold |-> t,
                             enableDebugLogging |-> (e = "debug")]]
    /\ callInput \in SeqsUpTo(TextSegments, MaxCallSegs)
    /\ lastValid = [e \in Extractors |-> <<>>]
    /\ returnedA = [e \in Extractors |-> NotReturned]
    /\ firstA = NotReturned
    /\ console = 0
    /\ nCalls = 0
    /\ ExceptCallsAbsent

\* extractors[e].extractValidSegments(input), input being callInput or not
CallExtract(e, onA) ==
    /\ nCalls < MaxCalls
    /\ LET input == IF onA THEN callInput ELSE OtherInput
           threshold == extractors[e].probabilityThreshold
           result == NewValidSegments(lastValid[e])
                        \o extractValidSegments(input, threshold)
       IN  /\ lastValid' = [lastValid EXCEPT ![e] = result]
           /\ returnedA' = IF onA
                           THEN [returnedA EXCEPT ![e] = [set |-> TRUE, value |-> result]]
                           ELSE returnedA
           /\ firstA' = IF onA /\ ~firstA.set
                        THEN [set |-> TRUE, value |-> result]
                        ELSE firstA
           /\ console' = IF extractors[e].enableDebugLogging
                         THEN console + logLines(input, threshold)
                         ELSE console
    /\ nCalls' = nCalls + 1
    /\ UNCHANGED <<extractors, callInput>>
    /\ UNCHANGED exceptCallsVars

CallsNext == \E e \in Extractors, onA \in BOOLEAN : CallExtract(e, onA)

SpecCalls == CallsInit /\ [][CallsNext]_vars

-----------------------------------------------------------------------------
(* The request-side bridge as a state machine *)

\* App.start called kafkaToRabbitMQConsumer.start(): startKafkaConsumer is
\* at its first await
BridgeInit ==
    /\ inbound = <<>>
    /\ kpc = "starting"
    /\ startOffset = 0
    /\ offset = 0
    /\ handling = 0
    /\ taskQueue = <<>>
    /\ bridgeLog = [i \in Positions |-> "none"]
    /\ jobsFrom = [i \in Positions |-> 0]
    /\ ExceptBridgeAbsent

\* a client publishes a request on the inbound topic
Produce(request) ==
    /\ Len(inbound) < MaxInbound
    /\ inbound' = Append(inbound, request)
    /\ UNCHANGED <<kpc, startOffset, offset, handling, taskQueue, bridgeLog, jobsFrom>>
    /\ UNCHANGED exceptBridgeVars

\* lines 18-24: connect, subscribe with fromBeginning: false, run; lines
\* 30-31 register the signal handlers
ConsumerStartSucceeds ==
    /\ kpc = "starting"
    /\ kpc' = "running"
    /\ startOffset' = Len(inbound)
    /\ offset' = Len(inbound)
    /\ UNCHANGED <<inbound, handling, taskQueue, bridgeLog, jobsFrom>>
    /\ UNCHANGED exceptBridgeVars

\* lines 25-27: connect, subscribe or run throws; the error is logged;
\* lines 30-31 register the signal handlers all the same
ConsumerStartFails ==
    /\ kpc = "starting"
    /\ kpc' = "startFailed"
    /\ UNCHANGED <<inbound, startOffset, offset, handling, taskQueue, bridgeLog, jobsFrom>>
    /\ UNCHANGED exceptBridgeVars

\* the runner calls eachMessageHandler for the next message of the topic
BridgeReceive ==
    /\ kpc = "running"
    /\ handling = 0
    /\ offset < Len(inbound)
    /\ handling' = offset + 1
    /\ UNCHANGED <<inbound, kpc, startOffset, offset, taskQueue, bridgeLog, jobsFrom>>
    /\ UNCHANGED exceptBridgeVars

\* the job is published to the task queue; the handler resolves
RepublishSucceeds ==
    /\ handling # 0
    /\ taskQueue' = Append(taskQueue, BridgeJob(inbound[handling]))
    /\ bridgeLog' = [bridgeLog EXCEPT ![handling] = "republished"]
    /\ jobsFrom' = [jobsFrom EXCEPT ![handling] = @ + 1]
    /\ offset' = handling
    /\ handling' = 0
    /\ UNCHANGED <<inbound, kpc, startOffset>>
    /\ UNCHANGED exceptBridgeVars

\* publishing the job fails; the handler logs it and resolves, so the
\* message counts as consumed
RepublishFails ==
    /\ handling # 0
    /\ bridgeLog' = [bridgeLog EXCEPT ![handling] = "failed"]
    /\ offset' = handling
    /\ handling' = 0
    /\ UNCHANGED <<inbound, kpc, startOffset, taskQueue, jobsFrom>>
    /\ UNCHANGED exceptBridgeVars

\* SIGTERM or SIGINT: shutdownKafkaConsumer calls consumer.disconnect(),
\* which stops the runner from taking further messages
ShutdownKafkaConsumer ==
    /\ kpc \in {"running", "startFailed"}
    /\ kpc' = "stopping"
    /\ UNCHANGED <<inbound, startOffset, offset, handling, taskQueue, bridgeLog, jobsFrom>>
    /\ UNCHANGED exceptBridgeVars

\* consumer.disconnect() resolves once the handler in progress has ended
ConsumerDisconnected ==
    /\ kpc = "stopping"
    /\ handling = 0
    /\ kpc' = "disconnected"
    /\ UNCHANGED <<inbound, startOffset, offset, handling, taskQueue, bridgeLog, jobsFrom>>
    /\ UNCHANGED exceptBridgeVars

BridgeNext ==
    \/ \E request \in RequestMessages : Produce(request)
    \/ ConsumerStartSucceeds
    \/ ConsumerStartFails
    \/ BridgeReceive
    \/ RepublishSucceeds
    \/ RepublishFails
    \/ ShutdownKafkaConsumer
    \/ ConsumerDisconnected

SpecBridge == BridgeInit /\ [][BridgeNext]_vars

-----------------------------------------------------------------------------
(* Properties of the Segment Validity Filter *)

\* the per-segment rules as the specification words them, in order
RuleValid(segment, threshold) ==
    IF segment.startTime = segment.endTime THEN FALSE
    ELSE IF Len(segment.words) = 0 THEN FALSE
    ELSE IF Len(trim(segment.rawText)) <= 2
            /\ calculateAverageProbability(segment.words) = 0 THEN TRUE
    ELSE calculateAverageProbability(segment.words) > threshold

\* length of the longest prefix of segs in which every segment is RuleValid
LongestValidPrefixLen(segs, threshold) ==
    CHOOSE n \in 0..Len(segs) :
        /\ \A i \in 1..n : RuleValid(segs[i], threshold)
        /\ n = Len(segs) \/ ~RuleValid(segs[n + 1], threshold)

\* C1: the result of extractValidSegments is a prefix of its input: for some
\* n <= Len(input) the output is input[1..n]; nothing is reordered and no
\* segment is skipped to reach a later valid one.
C1_OutputIsPrefix ==
    fpc = "done" =>
        \E n \in 0..Len(segments) : validSegments = SubSeq(segments, 1, n)

\* an invalid segment followed by a valid one: the later one is not reached
C1_Witness ==
    /\ fpc = "done"
    /\ Len(segments) = 2
    /\ ~RuleValid(segments[1], probabilityThreshold)
    /\ RuleValid(segments[2], probabilityThreshold)
    /\ validSegments = <<>>

\* C2: extractValidSegments returns exactly the longest prefix in which every
\* segment is valid under the rules (end marker invalid; no words invalid;
\* short text with zero average valid; otherwise valid iff the average is
\* strictly above the threshold), and nothing after the first invalid segment.
C2_LongestValidPrefix ==
    fpc = "done" =>
        validSegments =
            SubSeq(segments, 1, LongestValidPrefixLen(segments, probabilityThreshold))

\* the scan is ended by a segment whose average equals a positive threshold
C2_Witness ==
    /\ fpc = "done"
    /\ Len(segments) = 2
    /\ probabilityThreshold > 0
    /\ segments[2].startTime # segments[2].endTime
    /\ Len(segments[2].words) > 0
    /\ calculateAverageProbability(segments[2].words) = probabilityThreshold
    /\ validSegments = <<segments[1]>>

\* C3: an end marker (startTime = endTime) at 0-based position k bounds the
\* output length by k, whatever follows and whatever the threshold is.
C3_EndMarkerBound ==
    fpc = "done" =>
        \A i \in 1..Len(segments) :
            segments[i].startTime = segments[i].endTime
                => Len(validSegments) <= i - 1

\* an end marker that would pass the probability test, at 0-based position 1
C3_Witness ==
    /\ fpc = "done"
    /\ Len(segments) = 2
    /\ segments[2].startTime = segments[2].endTime
    /\ Len(segments[2].words) > 0
    /\ calculateAverageProbability(segments[2].words) > probabilityThreshold
    /\ Len(validSegments) = 1

\* C4: a segment with an empty words sequence at 0-based position k bounds
\* the output length by k, whatever follows and whatever the threshold is.
C4_EmptyWordsBound ==
    fpc = "done" =>
        \A i \in 1..Len(segments) :
            Len(segments[i].words) = 0 => Len(validSegments) <= i - 1

\* an empty-words segment that is not an end marker and has a short text
C4_Witness ==
    /\ fpc = "done"
    /\ Len(segments) = 2
    /\ segments[2].hasWords
    /\ Len(segments[2].words) = 0
    /\ segments[2].startTime # segments[2].endTime
    /\ Len(trim(segments[2].rawText)) <= 2
    /\ Len(validSegments) = 1

\* the segment the special case is about
ShortZeroSegment(segment) ==
    /\ segment.startTime # segment.endTime
    /\ Len(segment.words) >= 1
    /\ Len(trim(segment.rawText)) <= 2
    /\ calculateAverageProbability(segment.words) = 0

\* C5: a segment that is no end marker, has at least one word, a trimmed text
\* of at most 2 characters and a zero average is kept in the output when every
\* segment before it is valid, also under a positive threshold.
C5_ShortZeroAccepted ==
    fpc = "done" =>
        \A i \in 1..Len(segments) :
            ( /\ ShortZeroSegment(segments[i])
              /\ \A j \in 1..(i - 1) : RuleValid(segments[j], probabilityThreshold) )
                => /\ Len(validSegments) >= i
                   /\ validSegments[i] = segments[i]

\* a short zero-probability segment kept as the second output, threshold > 0
C5_Witness ==
    /\ fpc = "done"
    /\ probabilityThreshold > 0
    /\ Len(segments) = 2
    /\ ShortZeroSegment(segments[2])
    /\ Len(validSegments) = 2
    /\ validSegments[2] = segments[2]

-----------------------------------------------------------------------------
(* Properties of the Task-Queue Worker *)

\* C6: when the download of a job's claim check fails, the task-queue message
\* stays unacknowledged (so the broker can redeliver it) and no response is
\* published for that delivery.
C6_DownloadFailureLeavesUnacked ==
    \A j \in Jobs :
        cur[j].downloadFailed =>
            /\ mstate[j] # "acked"
            /\ ~cur[j].published

\* C7: a message that passed validation is acknowledged only after its
\* response was successfully published; if publishing fails it is not
\* acknowledged.
C7_PublishThenAck ==
    \A j \in Jobs :
        /\ (Truthy(payload[j].correlationId) /\ mstate[j] = "acked")
               => cur[j].published
        /\ cur[j].publishFailed => mstate[j] # "acked"

\* a payload that is not JSON, or whose correlationId is missing or empty
Malformed(p) ==
    \/ ~p.parsed
    \/ p.correlationId = Undefined
    \/ p.correlationId = ""

-----------------------------------------------------------------------------
(* Properties of the Correlation Registry *)

\* C9: a resolve(id, r) issued while id is pending for the caller that
\* registered it hands exactly r to that caller, once, reports a match and
\* removes the entry (so a second resolve of id reports no match); a resolve
\* of an id that is not pending reports no match, delivers nothing and leaves
\* every pending entry as it was.
C9_RoundTrip ==
    [][ (nOps' # nOps /\ lastOp'.op = "resolve") =>
            LET id == lastOp'.id
                r == lastOp'.response
            IN  IF EntriesOf(pending[appService], id) # {}
                THEN /\ lastOp'.result = "match"
                     /\ delivered' = [delivered EXCEPT ![id] = Append(@, r)]
                     /\ EntriesOf(pending'[appService], id) = {}
                     /\ \A other \in PendingIds \ {id} :
                            { pending'[appService][i] :
                                  i \in EntriesOf(pending'[appService], other) }
                          = { pending[appService][i] :
                                  i \in EntriesOf(pending[appService], other) }
                ELSE /\ lastOp'.result = "no match"
                     /\ delivered' = delivered
                     /\ pending' = pending
      ]_vars

\* a duplicate response for an id that was registered and resolved once is
\* dropped while another id is still pending
C9_Witness ==
    /\ lastOp.op = "resolve"
    /\ lastOp.result = "no match"
    /\ lastOp.response = "r2"
    /\ delivered[lastOp.id] = <<"r1">>
    /\ \E other \in PendingIds \ {lastOp.id} :
           EntriesOf(pending[appService], other) # {}

\* no two PendingRequest entries of one registry carry the same correlationId
UniquePending ==
    \A ref \in ServiceRefs :
        \A i, k \in DOMAIN pending[ref] :
            i # k => pending[ref][i].correlationId # pending[ref][k].correlationId

\* C10: in every reachable state there is at most one PendingRequest per
\* correlationId, and a register(id) while id is pending fails with
\* DuplicateCorrelation and leaves the entries unchanged, under every
\* interleaving of register, resolve and cancel.
C10_AtMostOnePending ==
    /\ []UniquePending
    /\ [][ ( /\ nOps' # nOps
             /\ lastOp'.op = "register"
             /\ EntriesOf(pending[appService], lastOp'.id) # {} )
               => /\ lastOp'.result = "DuplicateCorrelation"
                  /\ pending' = pending
         ]_vars

\* a colliding register refused after a response for another id went through
C10_Witness ==
    /\ lastOp.op = "register"
    /\ lastOp.result = "DuplicateCorrelation"
    /\ EntriesOf(pending[appService], lastOp.id) # {}
    /\ \E other \in PendingIds \ {lastOp.id} : delivered[other] # <<>>

-----------------------------------------------------------------------------
(* Properties of the Object Store Gateway *)

\* C11: fileExists raises nothing for an absent blob: it returns false when
\* the store reports not-found and true when the blob exists; only a fault
\* other than not-found is raised.
C11_ExistsNeverThrowsNotFound ==
    stLast.op = "fileExists" =>
        IF stLast.fault
        THEN stLast.outcome.thrown /\ stLast.outcome.code # "NotFound"
        ELSE /\ ~stLast.outcome.thrown
             /\ stLast.outcome.value = (stLast.name \in stLast.before)

\* fileExists answered false for a blob that a delete had removed
C11_Witness ==
    /\ stLast.op = "fileExists"
    /\ ~stLast.fault
    /\ stLast.name \notin stLast.before
    /\ ~stLast.outcome.thrown
    /\ stLast.outcome.value = FALSE
    /\ stOps >= 2

\* C12: deleteFile on a blob that is absent (already deleted or never there)
\* ends as success, and a delete leaves the bucket as one delete of that name
\* leaves it: the name gone, every other blob as before.
C12_DeleteIdempotent ==
    (stLast.op = "deleteFile" /\ ~stLast.fault) =>
        /\ ~stLast.outcome.thrown
        /\ bucket = stLast.before \ {stLast.name}

\* a second delete of a name that is no longer in the bucket, ended as success
C12_Witness ==
    /\ stLast.op = "deleteFile"
    /\ ~stLast.fault
    /\ stLast.name \notin stLast.before
    /\ ~stLast.outcome.thrown
    /\ stOps >= 2

-----------------------------------------------------------------------------
(* Properties of calculateAverageProbability *)

Abs(x) == IF x < 0 THEN -x ELSE x

\* C13: the returned average is the arithmetic mean of the probabilities
\* rounded to the nearest thousandth (0 for no words), and the probabilities
\* 0.1, 0.2, 0.3 give exactly 0.200.
C13_AverageRounded ==
    apc = "done" =>
        /\ Len(avgWords) = 0 => average = 0
        /\ Len(avgWords) > 0 =>
               2 * Abs(average * Len(avgWords) - SumProbability(avgWords))
                   <= Len(avgWords)
        /\ avgWords = <<100, 200, 300>> => average = 200

\* the documented case
C13_Witness ==
    /\ apc = "done"
    /\ avgWords = <<100, 200, 300>>
    /\ average = 200

-----------------------------------------------------------------------------
(* Properties of repeated calls *)

\* every call on callInput so far returned what the first one returned
SameResultForSameInput ==
    \A e \in Extractors : returnedA[e].set => returnedA[e].value = firstA.value

-----------------------------------------------------------------------------
(* Further properties of the Task-Queue Worker *)

\* C15: within the worker slot jobs are handled strictly one at a time: no
\* second job is delivered or starts its download while another one is
\* between its delivery and the end of its run, so two jobs are never in
\* flight together.
C15_OneJobAtATime ==
    /\ Cardinality({j \in Jobs : hpc[j] \in InFlight}) <= 1
    /\ \A j, k \in Jobs :
           (j # k /\ hpc[j] \in InFlight) => mstate[k] # "unacked"

\* a second job is downloading after the first one was answered and
\* acknowledged
C15_Witness ==
    \E j, k \in Jobs :
        /\ j # k
        /\ hpc[j] = "download"
        /\ mstate[k] = "acked"
        /\ cur[k].published

\* C16: every published response has status Processed, carries the
\* correlationId and the other fields of the job it answers unchanged, and
\* contains the segments the Segment Validity Filter produced.
C16_ResponseCarriesFilteredSegments ==
    \A i \in 1..Len(responses) :
        /\ responses[i].status = "Processed"
        /\ \E j \in Jobs :
               /\ responses[i].correlationId = payload[j].correlationId
               /\ responses[i].referenceTexts = payload[j].referenceTexts
               /\ responses[i].fileClaimCheck = payload[j].fileClaimCheck
        /\ "segments" \in DOMAIN responses[i]

\* C18: after SIGTERM or SIGINT every job in flight runs to its end,
\* acknowledgment included, before the broker client goes away; no run is
\* cut off and none starts afterwards.
C18_CooperativeShutdown ==
    /\ \A j \in Jobs : hpc[j] # "abandoned"
    /\ proc = "terminated" => \A j \in Jobs : hpc[j] \notin InFlight

\* C19: no failure (broker connect, download, path resolution of the claim
\* check, response publish) ends the process with an uncaught error, and
\* a failed download or publish ends that run, leaving the slot to the next
\* message.
C19_NoFailureIsFatal ==
    /\ proc # "crashed"
    /\ \A j \in Jobs :
           (cur[j].downloadFailed \/ cur[j].publishFailed) => hpc[j] = "done"

\* number of responses published with correlationId id
ResponsesFor(id) ==
    Cardinality({ i \in 1..Len(responses) : responses[i].correlationId = id })

\* successful downloads of the jobs j..MaxJobs that carry correlationId id
RECURSIVE DownloadsOkFor(_, _)
DownloadsOkFor(j, id) ==
    IF j > MaxJobs THEN 0
    ELSE (IF payload[j].correlationId = id THEN downloadsOk[j] ELSE 0)
             + DownloadsOkFor(j + 1, id)

\* C20: a run of processAndRespondToKafka publishes at most one response and
\* only after its download succeeded, so the responses published for a
\* correlationId never outnumber the deliveries of that job whose download
\* succeeded, over any sequence of deliveries and redeliveries.
C20_ResponsesBoundedByDownloads ==
    /\ \A id \in CorrelationIds : ResponsesFor(id) <= DownloadsOkFor(1, id)
    /\ \A j \in Jobs :
           /\ downloadsOk[j] <= deliveries[j]
           /\ cur[j].published => (cur[j].downloadStarted /\ ~cur[j].downloadFailed)

\* a job delivered twice whose download succeeded both times and that was
\* answered
C20_Witness ==
    \E j \in Jobs :
        /\ deliveries[j] = 2
        /\ downloadsOk[j] = 2
        /\ cur[j].published
        /\ ResponsesFor(payload[j].correlationId) >= 1

-----------------------------------------------------------------------------
(* Properties of the request-side bridge *)

\* the jobs expected on the task queue for the messages from position i on:
\* one job with the request's fields per republished message, in topic order
RECURSIVE ExpectedJobs(_)
ExpectedJobs(i) ==
    IF i > Len(inbound) THEN <<>>
    ELSE (IF bridgeLog[i] = "republished"
          THEN << [correlationId |-> inbound[i].correlationId,
                   referenceTexts |-> inbound[i].referenceTexts,
                   claimCheck |-> inbound[i].claimCheck] >>
          ELSE <<>>) \o ExpectedJobs(i + 1)

\* C17: every message consumed from the inbound topic is republished as a
\* task-queue job with the same correlationId and fields; when the republish
\* fails the message is consumed all the same and not retried; no inbound
\* message yields more than one job.
C17_BridgeAtMostOnce ==
    /\ taskQueue = ExpectedJobs(1)
    /\ \A i \in Positions :
           /\ jobsFrom[i] <= 1
           /\ (startOffset < i /\ i <= offset) => bridgeLog[i] \in {"republished", "failed"}
           /\ bridgeLog[i] = "republished" => (jobsFrom[i] = 1 /\ i <= offset)
           /\ bridgeLog[i] = "failed" => (jobsFrom[i] = 0 /\ i <= offset)

\* the first request was lost to a failed republish and stays consumed while
\* the second one is on the task queue with its correlationId
C17_Witness ==
    /\ Len(inbound) = 2
    /\ offset = 2
    /\ bridgeLog[1] = "failed"
    /\ bridgeLog[2] = "republished"
    /\ Len(taskQueue) = 1
    /\ taskQueue[1].correlationId = inbound[2].correlationId

====
